---------------------------- MODULE Spec2Model ----------------------------
(***************************************************************************)
(* Model of the vulnerability-triage training scripts in src/ml-training:  *)
(*   collect_training_data.py  (Record Collector)                          *)
(*   train_naive_bayes.py      (classical trainer)                         *)
(*   train_bert.py             (transformer trainer)                       *)
(*                                                                         *)
(* Five specifications share the module:                                   *)
(*   Spec         one run of a trainer script, main() / train_bert(), with *)
(*                the dataset abstracted to its length and label sum       *)
(*   SpecSave     lines 92-121 of train_naive_bayes.train_model, entered   *)
(*                with a split already made                                *)
(*   SpecFeatures extract_features / prepare_data on a DataFrame object    *)
(*   SpecSplit    lines 61-90 of train_naive_bayes.train_model on a small  *)
(*                dataset whose records are told apart                     *)
(*   SpecCollect  create_training_csv()                                    *)
(***************************************************************************)
EXTENDS Integers, Sequences, FiniteSets, TLC

VARIABLES
    \* ---- a trainer run (Spec, SpecSave)
    backend,           \* "nb" (train_naive_bayes.py) or "bert" (train_bert.py)
    pc,                \* position of the run in main() / train_bert()
    csv_exists,        \* Path("data/training_data.csv").exists()
    df,                \* the loaded DataFrame: [len, real_threats], or NoFrame (None)
    answer,            \* what input() returned at the low-data prompt, "unread" before
    out,               \* the diagnostics printed so far
    files,             \* the files under models/: path -> content
    epoch,             \* epochs the transformers Trainer has completed
    metrics,           \* validation accuracy of each completed epoch
    best_metric,       \* TrainerState.best_metric, NoMetric for None
    best_ckpt,         \* TrainerState.best_model_checkpoint as its epoch, 0 for None
    patience_counter,  \* EarlyStoppingCallback.early_stopping_patience_counter
    should_stop,       \* TrainerControl.should_training_stop
    weights,           \* the weights held by trainer.model: 0 pretrained, e after epoch e
    saved_weights,     \* the weights written by trainer.save_model, -1 before
    \* ---- a Feature Builder call (SpecFeatures)
    frame,             \* the DataFrame object the caller passed: [columns, rows]
    frame0,            \* that object's value when the call was made
    fn,                \* the function called, "none" before the call; it
                       \* returns the object it was passed
    \* ---- train_model on rows that are told apart (SpecSplit)
    y,                 \* df['is_real_threat'].values: the label of row i
    spc,               \* position in train_model
    fit_docs,          \* the rows whose text vectorizer.fit_transform was given
    train_idx,         \* the rows of X_train
    test_idx,          \* the rows of X_test, the holdout
    \* ---- the Record Collector (SpecCollect)
    history_exists,    \* Path("data/history.json").exists()
    history,           \* data/history.json: analyses, each a list of vulnerabilities
    feedback_exists,   \* Path("data/feedback.json").exists()
    cpc,               \* position in create_training_csv
    pos,               \* vulnerabilities the loops of collect_from_history have done
    training_data,     \* the list collect_from_history builds
    feedback_data,     \* what collect_from_feedback returned
    csv_rows           \* the rows written to data/training_data.csv

pipeVars == <<backend, pc, csv_exists, df, answer, out, files, epoch, metrics,
              best_metric, best_ckpt, patience_counter, should_stop, weights,
              saved_weights>>

featVars == <<frame, frame0, fn>>

splitVars == <<y, spc, fit_docs, train_idx, test_idx>>

collVars == <<history_exists, history, feedback_exists, cpc, pos, training_data,
              feedback_data, csv_rows>>

vars == <<pipeVars, featVars, splitVars, collVars>>

---------------------------------------------------------------------------
\* Bounds of the model
MaxFalse == 100         \* a loaded dataset has 0..MaxFalse records of label 0
MaxThreat == 12         \* and 0..MaxThreat records of label 1
MaxAcc == 2             \* validation accuracy is one of the levels 0..MaxAcc
MaxRows == 2            \* a frame handed to the Feature Builder has 0..MaxRows rows
MaxRecords == 6         \* train_model is given 0..MaxRecords rows in SpecSplit
MaxAnalyses == 2        \* history.json holds 0..MaxAnalyses analyses
MaxVulns == 2           \* an analysis holds 0..MaxVulns vulnerabilities

\* Program constants
LowDataNB == 50             \* train_naive_bayes.py:131
LowDataBert == 100          \* train_bert.py:73
ImbalanceMin == 10          \* train_naive_bayes.py:145
TestDen == 5                \* test_size=0.2 = 1/TestDen
NumTrainEpochs == 3         \* train_bert.py:122
EarlyStoppingPatience == 2  \* train_bert.py:143
NoMetric == -1
NoFrame == [len |-> -1, real_threats |-> -1]

Backends == {"nb", "bert"}

\* What the operator may type at the prompt; "EOF" is a closed stdin.
Answers == {"s", "S", "n", "N", "", "sim", "y", " s", "EOF"}

\* str.lower() on the answers above
Lower(a) ==
    CASE a = "S" -> "s"
      [] a = "N" -> "n"
      [] OTHER -> a

NBFiles == {"naive_bayes.pkl", "vectorizer.pkl"}
Checkpoint(e) ==
    CASE e = 1 -> "bert_model/checkpoint-1"
      [] e = 2 -> "bert_model/checkpoint-2"
      [] e = 3 -> "bert_model/checkpoint-3"
      [] OTHER -> "bert_model/checkpoint-n"
BertFiles == {Checkpoint(e) : e \in 1..NumTrainEpochs} \cup
             {"bert_model/model", "bert_model/tokenizer"}
ModelFiles == NBFiles \cup BertFiles

\* "none": no such file; "old": left whole by an earlier run;
\* "new": written whole by this run; "partial": opened for writing by this
\* run and left short by a failed write.

---------------------------------------------------------------------------
\* sklearn.model_selection.train_test_split(..., test_size=0.2, stratify=y)

\* n_test = ceil(test_size * n_samples)
NTest(n) == (n + TestDen - 1) \div TestDen
\* train_size is None: n_train = n_samples - n_test
NTrain(n) == n - NTest(n)
\* the number of distinct labels in y
NClasses(n, k) == (IF k > 0 THEN 1 ELSE 0) + (IF n - k > 0 THEN 1 ELSE 0)
\* the members of the least populated class that occurs in y
MinClass(n, k) == IF k = 0 THEN n ELSE IF n - k = 0 THEN k
                  ELSE IF k < n - k THEN k ELSE n - k

\* The split raises ValueError: empty input or empty train set, a class
\* with a single member, or fewer train or test rows than classes.
StratifyError(n, k) ==
    \/ n = 0
    \/ NTrain(n) = 0
    \/ MinClass(n, k) < 2
    \/ NTrain(n) < NClasses(n, k)
    \/ NTest(n) < NClasses(n, k)

---------------------------------------------------------------------------
\* A trainer run

Len_df == df.len
real_threats == df.real_threats
false_positives == Len_df - real_threats

LowDataThreshold(b) == IF b = "nb" THEN LowDataNB ELSE LowDataBert

\* `if input().lower() != 's': return`
Confirmed_unless_n(a) == Lower(a) # "n"
Confirmed(a) == Lower(a) = "s"

\* `if real_threats < 10 or false_positives < 10`
Imbalanced == real_threats < ImbalanceMin \/ false_positives < ImbalanceMin

\* An exception nothing catches: the traceback is printed and the run ends.
Raise(e) == /\ pc' = "raised"
            /\ out' = out \cup {"traceback", e}

TrainerIdle ==
    /\ epoch = 0 /\ metrics = <<>> /\ best_metric = NoMetric /\ best_ckpt = 0
    /\ patience_counter = 0 /\ should_stop = FALSE /\ weights = 0
    /\ saved_weights = -1

trainerVars == <<epoch, metrics, best_metric, best_ckpt, patience_counter,
                 should_stop, weights, saved_weights>>

EmptyFrame == [columns |-> {}, rows |-> <<>>]

FeatIdle == frame = EmptyFrame /\ frame0 = EmptyFrame /\ fn = "none"

SplitIdle == /\ y = <<>> /\ spc = "idle" /\ fit_docs = {}
             /\ train_idx = {} /\ test_idx = {}

CollIdle == /\ history_exists = FALSE /\ history = <<>>
            /\ feedback_exists = FALSE /\ cpc = "idle" /\ pos = 0
            /\ training_data = <<>> /\ feedback_data = <<>> /\ csv_rows = <<>>

\* The state a script starts in: the input file is there or not, and
\* models/ is empty or holds the artifacts of an earlier run.
Init ==
    /\ backend \in Backends
    /\ pc = "start"
    /\ csv_exists \in BOOLEAN
    /\ df = NoFrame
    /\ answer = "unread"
    /\ out = {}
    /\ \E c \in {"none", "old"} : files = [f \in ModelFiles |-> c]
    /\ TrainerIdle
    /\ FeatIdle /\ SplitIdle /\ CollIdle

\* load_data: `if not data_file.exists():`
FileMissing_inverted == csv_exists
FileMissing == ~csv_exists

\* load_data() and `if df is None: return`
LoadData ==
    /\ pc = "start"
    /\ IF FileMissing
       THEN /\ out' = out \cup {"missing_input"}
            /\ pc' = "returned"
            /\ df' = df
       ELSE /\ \E n0 \in 0..MaxFalse, n1 \in 0..MaxThreat :
                  df' = [len |-> n0 + n1, real_threats |-> n1]
            /\ out' = out \cup {"loaded"}
            /\ pc' = "gate"
    /\ UNCHANGED <<backend, csv_exists, answer, files, trainerVars, featVars, splitVars, collVars>>

\* `if len(df) < 50:` (100 for BERT) and the two prints under it
GateWarn ==
    /\ pc = "gate"
    /\ IF Len_df < LowDataThreshold(backend)
       THEN /\ out' = out \cup {"low_data"}
            /\ pc' = "prompt"
       ELSE /\ out' = out
            /\ pc' = IF backend = "nb" THEN "balance" ELSE "prepare"
    /\ UNCHANGED <<backend, csv_exists, df, answer, files, trainerVars, featVars, splitVars, collVars>>

\* `if input().lower() != 's': return`
ReadAnswer ==
    /\ pc = "prompt"
    /\ \E a \in Answers :
        /\ answer' = a
        /\ IF a = "EOF" THEN Raise("EOFError")
           ELSE /\ out' = out
                /\ pc' = IF ~Confirmed(a) THEN "returned"
                         ELSE IF backend = "nb" THEN "balance" ELSE "prepare"
    /\ UNCHANGED <<backend, csv_exists, df, files, trainerVars, featVars, splitVars, collVars>>

\* train_naive_bayes.main, "Verifica balanceamento": the distribution is
\* printed with real_threats/len(df), which divides by zero on an empty frame.
Balance ==
    /\ pc = "balance" /\ backend = "nb"
    /\ IF Len_df = 0 THEN Raise("ZeroDivisionError")
       ELSE /\ out' = out \cup {"distribution"} \cup
                      (IF Imbalanced THEN {"imbalance"} ELSE {})
            /\ pc' = "extract"
    /\ UNCHANGED <<backend, csv_exists, df, answer, files, trainerVars, featVars, splitVars, collVars>>

\* train_model: `df = extract_features(df)`
ExtractFeaturesStep ==
    /\ pc = "extract" /\ backend = "nb"
    /\ pc' = "vectorize"
    /\ UNCHANGED <<backend, csv_exists, df, answer, out, files, trainerVars, featVars, splitVars, collVars>>

\* train_model: TfidfVectorizer(min_df=2).fit_transform(X_text) and hstack.
\* fit_transform raises ValueError when no term survives the pruning, which
\* the texts decide.
Vectorize ==
    /\ pc = "vectorize" /\ backend = "nb"
    /\ \E empty_vocabulary \in BOOLEAN :
          IF empty_vocabulary THEN Raise("ValueError")
          ELSE /\ out' = out \cup {"vectorizing"}
               /\ pc' = "split"
    /\ UNCHANGED <<backend, csv_exists, df, answer, files, trainerVars, featVars, splitVars, collVars>>

\* train_model lines 85-88: train_test_split(X, y, test_size=0.2,
\* random_state=42, stratify=y)
SplitNB ==
    /\ pc = "split" /\ backend = "nb"
    /\ IF StratifyError(Len_df, real_threats)
       THEN Raise("ValueError")
       ELSE /\ pc' = "sizes"
            /\ out' = out
    /\ UNCHANGED <<backend, csv_exists, df, answer, files, trainerVars, featVars, splitVars, collVars>>

\* train_model line 90: the f-string takes len(X_train), and X_train is a
\* scipy sparse matrix (the hstack of line 83, split), whose __len__ raises
\* TypeError("sparse matrix length is ambiguous"): the run ends here.
PrintSizes ==
    /\ pc = "sizes" /\ backend = "nb"
    /\ Raise("TypeError")
    /\ UNCHANGED <<backend, csv_exists, df, answer, files, trainerVars, featVars, splitVars, collVars>>
\* train_bert: `df = prepare_data(df)`
PrepareDataStep ==
    /\ pc = "prepare" /\ backend = "bert"
    /\ out' = out \cup {"preparing"}
    /\ pc' = "split"
    /\ UNCHANGED <<backend, csv_exists, df, answer, files, trainerVars, featVars, splitVars, collVars>>

\* train_bert: train_test_split(df, test_size=0.2, random_state=42, stratify=...)
SplitBert ==
    /\ pc = "split" /\ backend = "bert"
    /\ IF StratifyError(Len_df, real_threats)
       THEN Raise("ValueError")
       ELSE /\ out' = out \cup {"split_sizes"}
            /\ pc' = "pretrained"
    /\ UNCHANGED <<backend, csv_exists, df, answer, files, trainerVars, featVars, splitVars, collVars>>

\* train_bert lines 90-144: the datasets, from_pretrained (a download or a
\* cache read, which can fail), the tokenizing, TrainingArguments, Trainer.
\* `files` follows the files under models/, not the directories made for them.
SetUpTrainer ==
    /\ pc = "pretrained" /\ backend = "bert"
    /\ \E fault \in BOOLEAN :
          IF fault THEN Raise("OSError")
          ELSE /\ out' = out \cup {"model_loaded"}
               /\ pc' = "train"
    /\ UNCHANGED <<backend, csv_exists, df, answer, files, trainerVars, featVars, splitVars, collVars>>

\* EarlyStoppingCallback.check_metric_value, called from on_evaluate with the
\* best_metric of the epochs before: the counter after a validation of `acc`
PatienceAfter(acc) ==
    IF best_metric = NoMetric \/ acc > best_metric THEN 0
    ELSE patience_counter + 1

\* Trainer, saving the epoch's checkpoint: is a validation of `acc` the new best
IsNewBest(acc) == best_metric = NoMetric \/ acc > best_metric

\* trainer.train(), one epoch (evaluation_strategy = save_strategy = "epoch"):
\* the training pass, the validation with its on_evaluate callback, then the
\* checkpoint written to output_dir "./models/bert_model". A fault in the
\* pass (out of memory, say) ends the run with the earlier checkpoints on disk.
TrainEpoch ==
    /\ pc = "train" /\ backend = "bert"
    /\ epoch < NumTrainEpochs /\ ~should_stop
    /\ \E fault \in BOOLEAN :
          IF fault
          THEN /\ Raise("RuntimeError")
               /\ UNCHANGED <<files, trainerVars>>
          ELSE \E acc \in 0..MaxAcc :
               /\ epoch' = epoch + 1
               /\ weights' = epoch + 1
               /\ metrics' = Append(metrics, acc)
               /\ patience_counter' = PatienceAfter(acc)
               /\ should_stop' = (PatienceAfter(acc) >= EarlyStoppingPatience)
               /\ files' = [files EXCEPT ![Checkpoint(epoch + 1)] = "new"]
               /\ best_metric' = IF IsNewBest(acc) THEN acc ELSE best_metric
               /\ best_ckpt' = IF IsNewBest(acc) THEN epoch + 1 ELSE best_ckpt
               /\ UNCHANGED <<pc, out, saved_weights>>
    /\ UNCHANGED <<backend, csv_exists, df, answer, featVars, splitVars, collVars>>

\* load_best_model_at_end=True: which weights trainer.model holds when
\* train() returns
WeightsAtEnd_last == weights
WeightsAtEnd == IF best_ckpt # 0 THEN best_ckpt ELSE weights

\* trainer.train() returns: the epochs are used up or the callback asked to stop
EndTraining ==
    /\ pc = "train" /\ backend = "bert"
    /\ epoch = NumTrainEpochs \/ should_stop
    /\ weights' = WeightsAtEnd
    /\ pc' = "evaluate"
    /\ UNCHANGED <<backend, csv_exists, df, answer, out, files, epoch, metrics,
                   best_metric, best_ckpt, patience_counter, should_stop,
                   saved_weights, featVars, splitVars, collVars>>

\* train_bert lines 150-153: trainer.evaluate() and the accuracy printed. The
\* model evaluated is the one train() left, on the same validation set, so
\* the accuracy is that checkpoint's; on_evaluate runs once more.
FinalEvaluate ==
    /\ pc = "evaluate" /\ backend = "bert"
    /\ \E fault \in BOOLEAN :
          IF fault
          THEN /\ Raise("RuntimeError")
               /\ UNCHANGED <<patience_counter, should_stop>>
          ELSE /\ patience_counter' = PatienceAfter(metrics[weights])
               /\ should_stop' = (PatienceAfter(metrics[weights]) >= EarlyStoppingPatience)
               /\ out' = out \cup {"accuracy"}
               /\ pc' = "save_model"
    /\ UNCHANGED <<backend, csv_exists, df, answer, files, epoch, metrics,
                   best_metric, best_ckpt, weights, saved_weights,
                   featVars, splitVars, collVars>>

\* train_bert lines 156-157: os.makedirs and trainer.save_model
SaveModel ==
    /\ pc = "save_model" /\ backend = "bert"
    /\ \E fault \in BOOLEAN :
          IF fault
          THEN /\ Raise("OSError")
               /\ files' = [files EXCEPT !["bert_model/model"] = "partial"]
               /\ UNCHANGED saved_weights
          ELSE /\ files' = [files EXCEPT !["bert_model/model"] = "new"]
               /\ saved_weights' = weights
               /\ pc' = "save_tokenizer"
               /\ out' = out
    /\ UNCHANGED <<backend, csv_exists, df, answer, epoch, metrics, best_metric,
                   best_ckpt, patience_counter, should_stop, weights, featVars, splitVars, collVars>>

\* train_bert lines 158-160: tokenizer.save_pretrained
SaveTokenizer ==
    /\ pc = "save_tokenizer" /\ backend = "bert"
    /\ \E fault \in BOOLEAN :
          IF fault
          THEN /\ Raise("OSError")
               /\ files' = [files EXCEPT !["bert_model/tokenizer"] = "partial"]
          ELSE /\ files' = [files EXCEPT !["bert_model/tokenizer"] = "new"]
               /\ out' = out \cup {"saved"}
               /\ pc' = "examples"
    /\ UNCHANGED <<backend, csv_exists, df, answer, trainerVars, featVars, splitVars, collVars>>

\* train_bert lines 162-184: the two sample predictions and the closing prints
TestExamples ==
    /\ pc = "examples" /\ backend = "bert"
    /\ \E fault \in BOOLEAN :
          IF fault THEN Raise("RuntimeError")
          ELSE /\ out' = out \cup {"done"}
               /\ pc' = "returned"
    /\ UNCHANGED <<backend, csv_exists, df, answer, files, trainerVars, featVars, splitVars, collVars>>

Next ==
    \/ LoadData \/ GateWarn \/ ReadAnswer
    \/ Balance \/ ExtractFeaturesStep \/ Vectorize \/ SplitNB \/ PrintSizes
    \/ PrepareDataStep \/ SplitBert \/ SetUpTrainer \/ TrainEpoch
    \/ EndTraining \/ FinalEvaluate \/ SaveModel \/ SaveTokenizer
    \/ TestExamples

Spec == Init /\ [][Next]_vars
---------------------------------------------------------------------------
\* train_naive_bayes.train_model from line 92 on: the fit, the evaluation and
\* the save. Line 90 ends every run that comes through main(), so these steps
\* are specified on their own, entered with a dataset the split accepts.

\* How the write of one pickle file ends: written; open() refused, the file
\* as it was; pickle.dump failed after open(.., 'wb') truncated the file.
WriteOutcomes == {"ok", "open_fails", "dump_fails"}

AfterWrite(content, outcome) ==
    CASE outcome = "ok" -> "new"
      [] outcome = "open_fails" -> content
      [] OTHER -> "partial"

InitSave ==
    /\ backend = "nb"
    /\ pc = "fit"
    /\ csv_exists = TRUE
    /\ \E n0 \in 0..MaxFalse, n1 \in 0..MaxThreat :
          /\ ~StratifyError(n0 + n1, n1)
          /\ df = [len |-> n0 + n1, real_threats |-> n1]
    /\ answer = "unread"
    /\ out = {}
    /\ \E c \in {"none", "old"} : files = [f \in ModelFiles |-> c]
    /\ TrainerIdle
    /\ FeatIdle /\ SplitIdle /\ CollIdle

\* train_model lines 92-95: MultinomialNB(alpha=1.0).fit(X_train, y_train)
FitNB ==
    /\ pc = "fit" /\ backend = "nb"
    /\ out' = out \cup {"training"}
    /\ pc' = "evaluate"
    /\ UNCHANGED <<backend, csv_exists, df, answer, files, trainerVars, featVars, splitVars, collVars>>

\* train_model lines 97-104: predict, accuracy_score, classification_report
\* with two target_names, which raises ValueError when the holdout and the
\* predictions hold one class between them.
EvaluateNB ==
    /\ pc = "evaluate" /\ backend = "nb"
    /\ \E one_class \in BOOLEAN :
          IF one_class THEN Raise("ValueError")
          ELSE /\ out' = out \cup {"accuracy", "report"}
               /\ pc' = "save_model"
    /\ UNCHANGED <<backend, csv_exists, df, answer, files, trainerVars, featVars, splitVars, collVars>>

\* train_model lines 106-113: os.makedirs, then
\* `with open(model_file, 'wb') as f: pickle.dump(model, f)`
SaveModelPkl ==
    /\ pc = "save_model" /\ backend = "nb"
    /\ \E o \in WriteOutcomes :
          /\ files' = [files EXCEPT !["naive_bayes.pkl"] = AfterWrite(@, o)]
          /\ IF o = "ok"
             THEN /\ pc' = "save_vectorizer"
                  /\ out' = out
             ELSE Raise("OSError")
    /\ UNCHANGED <<backend, csv_exists, df, answer, trainerVars, featVars, splitVars, collVars>>

\* train_model lines 115-116:
\* `with open(vectorizer_file, 'wb') as f: pickle.dump(vectorizer, f)`
SaveVectorizerPkl ==
    /\ pc = "save_vectorizer" /\ backend = "nb"
    /\ \E o \in WriteOutcomes :
          /\ files' = [files EXCEPT !["vectorizer.pkl"] = AfterWrite(@, o)]
          /\ IF o = "ok"
             THEN /\ pc' = "saved"
                  /\ out' = out
             ELSE Raise("OSError")
    /\ UNCHANGED <<backend, csv_exists, df, answer, trainerVars, featVars, splitVars, collVars>>

\* train_model lines 118-121 and main lines 151-155: the closing prints
FinishNB ==
    /\ pc = "saved" /\ backend = "nb"
    /\ out' = out \cup {"saved", "done"}
    /\ pc' = "returned"
    /\ UNCHANGED <<backend, csv_exists, df, answer, files, trainerVars, featVars, splitVars, collVars>>

NextSave ==
    \/ FitNB \/ EvaluateNB \/ SaveModelPkl \/ SaveVectorizerPkl \/ FinishNB

SpecSave == InitSave /\ [][NextSave]_vars
---------------------------------------------------------------------------
\* The Feature Builder: train_naive_bayes.extract_features and
\* train_bert.prepare_data. A text cell is a sequence of characters, NaNText
\* when missing; the severity, cve and cwe cells are strings, NaN when missing.

NaN == "NaN"
NaNText == <<"NaN">>

Upper == <<"A","B","C","D","E","F","G","H","I","J","K","L","M",
           "N","O","P","Q","R","S","T","U","V","W","X","Y","Z">>
LowerAlpha == <<"a","b","c","d","e","f","g","h","i","j","k","l","m",
                "n","o","p","q","r","s","t","u","v","w","x","y","z">>

LowerChar(c) ==
    IF \E i \in 1..26 : Upper[i] = c
    THEN LowerAlpha[CHOOSE i \in 1..26 : Upper[i] = c]
    ELSE c

LowerText(t) == [i \in 1..Len(t) |-> LowerChar(t[i])]

\* whether `pat` occurs in `t`
Occurs(pat, t) ==
    \E i \in 1..(Len(t) - Len(pat) + 1) : SubSeq(t, i, i + Len(pat) - 1) = pat

\* Series.fillna('') on a text cell
FillText(t) == IF t = NaNText THEN <<>> ELSE t

\* Series.notna().astype(int)
NotNa(v) == IF v = NaN THEN 0 ELSE 1

\* extract_features: the dict severity_map
severity_map ==
    [s \in {"CRITICAL", "HIGH", "MEDIUM", "LOW", "INFO"} |->
        CASE s = "CRITICAL" -> 4
          [] s = "HIGH" -> 3
          [] s = "MEDIUM" -> 2
          [] s = "LOW" -> 1
          [] OTHER -> 0]

\* df['severity'].map(severity_map).fillna(2): a value that is no key of the
\* dict, NaN included, maps to NaN, and NaN is filled with 2
SeverityDefault == 2

\* Series.map(dict): the cell's value under the dict, <<>> for NaN
MapSeverity(sev) ==
    IF sev \in DOMAIN severity_map THEN <<severity_map[sev]>> ELSE <<>>

FillNa(cell, d) == IF cell = <<>> THEN d ELSE cell[1]

SeverityNumeric_default0(sev) == FillNa(MapSeverity(sev), 0)
SeverityNumeric(sev) == FillNa(MapSeverity(sev), SeverityDefault)

\* df['file'].str.contains('test|spec|example', case=False, na=False).astype(int)
IsTestFile(file) ==
    IF file = NaNText THEN 0
    ELSE IF \/ Occurs(<<"t","e","s","t">>, LowerText(file))
            \/ Occurs(<<"s","p","e","c">>, LowerText(file))
            \/ Occurs(<<"e","x","a","m","p","l","e">>, LowerText(file))
         THEN 1 ELSE 0

\* extract_features: the text of a row
TextNB(r) ==
    FillText(r.name) \o <<" ">> \o FillText(r.description) \o <<" ">> \o
    FillText(r.message)

Sep == <<" ","[","S","E","P","]"," ">>

MaxTextChars == 500

\* Series.str[:500]
Truncate(t) == SubSeq(t, 1, IF Len(t) < MaxTextChars THEN Len(t) ELSE MaxTextChars)

\* prepare_data: the text of a row
TextBert(r) ==
    Truncate(FillText(r.name) \o Sep \o FillText(r.description) \o Sep \o
             FillText(r.message))

\* `df[col] = values`: the column is added to the frame, or replaced in it
SetColumn(f, col, values) ==
    [columns |-> f.columns \cup {col},
     rows |-> [i \in 1..Len(f.rows) |->
                  [c \in f.columns \cup {col} |->
                      IF c = col THEN values[i] ELSE f.rows[i][c]]]]

\* extract_features(df): the five assignments, in their order, on the frame
ExtractFeatures(f) ==
    LET f1 == SetColumn(f, "text", [i \in 1..Len(f.rows) |-> TextNB(f.rows[i])])
        f2 == SetColumn(f1, "has_cve", [i \in 1..Len(f.rows) |-> NotNa(f1.rows[i].cve)])
        f3 == SetColumn(f2, "has_cwe", [i \in 1..Len(f.rows) |-> NotNa(f2.rows[i].cwe)])
        f4 == SetColumn(f3, "severity_numeric",
                        [i \in 1..Len(f.rows) |-> SeverityNumeric(f3.rows[i].severity)])
    IN SetColumn(f4, "is_test_file",
                 [i \in 1..Len(f.rows) |-> IsTestFile(f4.rows[i].file)])

\* prepare_data(df): the two assignments to df['text']
PrepareData(f) ==
    SetColumn(f, "text", [i \in 1..Len(f.rows) |-> TextBert(f.rows[i])])

\* The columns of data/training_data.csv
CsvColumns == {"name", "description", "severity", "cve", "cwe", "file", "line",
               "message", "is_real_threat"}

\* The severity cells tried: the five keys, other spellings, and missing
Severities == {"CRITICAL", "HIGH", "MEDIUM", "LOW", "INFO",
               "high", "Critical", "UNKNOWN", NaN}

LongText == [i \in 1..498 |-> "x"]

\* The other cells of a row, in four combinations
Profiles ==
    { [name |-> <<"X","S","S">>, description |-> <<"b","a","d">>,
       message |-> <<"m">>, cve |-> "CVE-2021-1", cwe |-> "CWE-79",
       file |-> <<"t","e","s","t","s","/","a",".","p","y">>,
       line |-> 10, is_real_threat |-> 1],
      [name |-> NaNText, description |-> LongText,
       message |-> NaNText, cve |-> NaN, cwe |-> "CWE-79",
       file |-> <<"s","r","c","/","A","p","p",".","p","y">>,
       line |-> 7, is_real_threat |-> 0],
      [name |-> <<"X","S","S">>, description |-> NaNText,
       message |-> <<"m">>, cve |-> NaN, cwe |-> NaN,
       file |-> NaNText,
       line |-> 1, is_real_threat |-> 1],
      [name |-> <<"X","S","S">>, description |-> <<"b","a","d">>,
       message |-> NaNText, cve |-> "CVE-2021-1", cwe |-> NaN,
       file |-> <<"d","o","c","s","/","E","X","A","M","P","L","E",".","m","d">>,
       line |-> 3, is_real_threat |-> 0] }

RowSet == { [c \in CsvColumns |-> IF c = "severity" THEN sev ELSE p[c]] :
            sev \in Severities, p \in Profiles }

SeqsUpTo(S, n) == UNION { [1..k -> S] : k \in 0..n }

PipeIdle ==
    /\ backend = "nb" /\ pc = "idle" /\ csv_exists = FALSE /\ df = NoFrame
    /\ answer = "unread" /\ out = {}
    /\ files = [f \in ModelFiles |-> "none"]
    /\ TrainerIdle

InitFeatures ==
    /\ PipeIdle
    /\ \E rows \in SeqsUpTo(RowSet, MaxRows) :
          frame = [columns |-> CsvColumns, rows |-> rows]
    /\ frame0 = frame
    /\ fn = "none"
    /\ SplitIdle /\ CollIdle

\* train_naive_bayes.train_model line 62: extract_features(df)
CallExtractFeatures ==
    /\ fn = "none"
    /\ fn' = "extract_features"
    /\ frame' = ExtractFeatures(frame)
    /\ UNCHANGED <<frame0, pipeVars, splitVars, collVars>>

\* train_bert.train_bert line 81: prepare_data(df)
CallPrepareData ==
    /\ fn = "none"
    /\ fn' = "prepare_data"
    /\ frame' = PrepareData(frame)
    /\ UNCHANGED <<frame0, pipeVars, splitVars, collVars>>

NextFeatures == CallExtractFeatures \/ CallPrepareData

SpecFeatures == InitFeatures /\ [][NextFeatures]_vars
---------------------------------------------------------------------------
\* train_naive_bayes.train_model lines 61-90 on rows that are told apart:
\* which rows the vectorizer is fitted on, and which rows the split holds out.

Rows == 1..Len(y)
ClassRows(c) == {i \in Rows : y[i] = c}
NThreat == Cardinality(ClassRows(1))

\* sklearn's _approximate_mode for two classes: how many of the m0 and m1
\* members go to a draw of `draws` rows, the floors of the proportional
\* shares and the row left over to the larger remainder, either on a tie.
ApproximateMode(m0, m1, draws) ==
    LET n == m0 + m1
        f0 == (m0 * draws) \div n
        f1 == (m1 * draws) \div n
        r0 == (m0 * draws) % n
        r1 == (m1 * draws) % n
    IN IF f0 + f1 = draws THEN {<<f0, f1>>}
       ELSE {a \in {<<f0 + 1, f1>>, <<f0, f1 + 1>>} :
                \/ a[1] = f0 + 1 /\ r0 >= r1
                \/ a[2] = f1 + 1 /\ r1 >= r0}

\* The partitions StratifiedShuffleSplit can return: the train rows, by
\* class, in the numbers of ApproximateMode; the rest is the holdout. Which
\* rows they are is the shuffle's choice.
StratifiedTrainSets ==
    LET m0 == Cardinality(ClassRows(0))
        m1 == Cardinality(ClassRows(1))
    IN {T \in SUBSET Rows :
          <<Cardinality(T \cap ClassRows(0)), Cardinality(T \cap ClassRows(1))>>
              \in ApproximateMode(m0, m1, NTrain(Len(y)))}

InitSplit ==
    /\ PipeIdle /\ FeatIdle /\ CollIdle
    /\ y \in SeqsUpTo({0, 1}, MaxRecords)
    /\ spc = "vectorize"
    /\ fit_docs = {} /\ train_idx = {} /\ test_idx = {}

\* train_model lines 68-83: vectorizer.fit_transform(X_text), X_text being
\* df['text'].values, the text of every row of the frame
VectorizeRows ==
    /\ spc = "vectorize"
    /\ \E empty_vocabulary \in BOOLEAN :
          IF empty_vocabulary \/ Rows = {}
          THEN /\ spc' = "raised"
               /\ UNCHANGED fit_docs
          ELSE /\ fit_docs' = Rows
               /\ spc' = "split"
    /\ UNCHANGED <<y, train_idx, test_idx, pipeVars, featVars, collVars>>

\* train_model lines 85-88: train_test_split(X, y, test_size=0.2, stratify=y)
SplitRows ==
    /\ spc = "split"
    /\ IF StratifyError(Len(y), NThreat)
       THEN /\ spc' = "raised"
            /\ UNCHANGED <<train_idx, test_idx>>
       ELSE /\ \E T \in StratifiedTrainSets :
                  /\ train_idx' = T
                  /\ test_idx' = Rows \ T
            /\ spc' = "sizes"
    /\ UNCHANGED <<y, fit_docs, pipeVars, featVars, collVars>>

\* train_model line 90: len(X_train) of a sparse matrix raises TypeError
PrintSizesRows ==
    /\ spc = "sizes"
    /\ spc' = "raised"
    /\ UNCHANGED <<y, fit_docs, train_idx, test_idx, pipeVars, featVars, collVars>>

NextSplit == VectorizeRows \/ SplitRows \/ PrintSizesRows

SpecSplit == InitSplit /\ [][NextSplit]_vars

---------------------------------------------------------------------------
\* collect_training_data.py

\* A vulnerability of the history: `pred` is mlPrediction.isRealThreat
\* ("absent": no such key), `feedback` the operator's verdict on it that
\* data/feedback.json holds ("none": no feedback on it).
Preds == {"absent", "true", "false"}
Verdicts == {"none", "true", "false"}
Vulns == [pred : Preds, feedback : Verdicts]

RECURSIVE Flatten(_)
\* the vulnerabilities in the order the two for loops reach them
Flatten(h) == IF h = <<>> THEN <<>> ELSE Head(h) \o Flatten(Tail(h))

\* `ml_pred.get('isRealThreat', True)` and `1 if is_real_threat else 0`
IsRealThreat(v) == IF v.pred = "false" THEN 0 ELSE 1

\* the dict collect_from_history appends for a vulnerability (the fields
\* copied from `original` are left out)
TrainingRow(v) == [is_real_threat |-> IsRealThreat(v)]

\* json.load of data/feedback.json: the feedback entries
FeedbackEntries(h) ==
    SelectSeq(Flatten(h), LAMBDA v : v.feedback # "none")

\* create_training_csv: `all_data = history_data`; the branch
\* `if feedback_data:` is `pass`
AllData(history_data, feedback) == history_data

InitCollect ==
    /\ PipeIdle /\ FeatIdle /\ SplitIdle
    /\ history_exists \in BOOLEAN
    /\ feedback_exists \in BOOLEAN
    /\ history \in SeqsUpTo(SeqsUpTo(Vulns, MaxVulns), MaxAnalyses)
    /\ history_exists = FALSE => history = <<>>
    /\ feedback_exists = FALSE => \A i \in 1..Len(Flatten(history)) :
                                      Flatten(history)[i].feedback = "none"
    /\ cpc = "start" /\ pos = 0
    /\ training_data = <<>> /\ feedback_data = <<>> /\ csv_rows = <<>>

\* collect_from_history lines 37-45
OpenHistory ==
    /\ cpc = "start"
    /\ cpc' = IF history_exists THEN "loop" ELSE "feedback"
    /\ UNCHANGED <<history_exists, history, feedback_exists, pos, training_data,
                   feedback_data, csv_rows, pipeVars, featVars, splitVars>>

\* collect_from_history lines 47-65: one vulnerability
AppendVuln ==
    /\ cpc = "loop" /\ pos < Len(Flatten(history))
    /\ pos' = pos + 1
    /\ training_data' = Append(training_data, TrainingRow(Flatten(history)[pos + 1]))
    /\ UNCHANGED <<history_exists, history, feedback_exists, cpc, feedback_data,
                   csv_rows, pipeVars, featVars, splitVars>>

\* collect_from_history line 67
ReturnHistory ==
    /\ cpc = "loop" /\ pos = Len(Flatten(history))
    /\ cpc' = "feedback"
    /\ UNCHANGED <<history_exists, history, feedback_exists, pos, training_data,
                   feedback_data, csv_rows, pipeVars, featVars, splitVars>>

\* collect_from_feedback
CollectFromFeedback ==
    /\ cpc = "feedback"
    /\ feedback_data' = IF feedback_exists THEN FeedbackEntries(history) ELSE <<>>
    /\ cpc' = "write"
    /\ UNCHANGED <<history_exists, history, feedback_exists, pos, training_data,
                   csv_rows, pipeVars, featVars, splitVars>>

\* create_training_csv lines 77-99
WriteCsv ==
    /\ cpc = "write"
    /\ csv_rows' = AllData(training_data, feedback_data)
    /\ cpc' = IF AllData(training_data, feedback_data) # <<>>
              THEN "written" ELSE "no_data"
    /\ UNCHANGED <<history_exists, history, feedback_exists, pos, training_data,
                   feedback_data, pipeVars, featVars, splitVars>>

NextCollect ==
    \/ OpenHistory \/ AppendVuln \/ ReturnHistory \/ CollectFromFeedback
    \/ WriteCsv

SpecCollect == InitCollect /\ [][NextCollect]_vars
---------------------------------------------------------------------------
\* Properties

\* No file under models/ was created or modified by the run
NoModelFileTouched == \A f \in ModelFiles : files[f] \in {"none", "old"}

Loaded == df # NoFrame

\* The run is past the low-data gate: at a later statement, or ended after one
PastGate ==
    \/ pc \in {"balance", "extract", "vectorize", "split", "sizes", "prepare",
               "pretrained", "train", "evaluate", "save_model",
               "save_tokenizer", "examples"}
    \/ out \cap {"distribution", "imbalance", "vectorizing", "preparing",
                 "split_sizes", "model_loaded", "accuracy", "saved", "done",
                 "ValueError", "TypeError", "ZeroDivisionError", "OSError",
                 "RuntimeError"} # {}
    \/ epoch > 0
    \/ ~NoModelFileTouched

\* C1: with data/training_data.csv absent, either trainer reports the
\* missing input, touches no file under models/ and returns normally.
C1_MissingInput ==
    ~csv_exists /\ pc # "start" =>
        /\ pc = "returned"
        /\ "missing_input" \in out
        /\ "traceback" \notin out
        /\ df = NoFrame
        /\ NoModelFileTouched

C1_Witness ==
    /\ ~csv_exists /\ pc = "returned" /\ backend = "bert"
    /\ files["bert_model/model"] = "old"

\* C2: below the backend's soft threshold (50 records classical, 100
\* transformer) the low-data warning is reported, nothing after the gate is
\* reached unless the operator answered s, and any other answer ends the
\* run with no training and no file written under models/.
C2_LowDataGate ==
    Loaded /\ Len_df < (IF backend = "nb" THEN 50 ELSE 100) =>
        /\ pc # "gate" => "low_data" \in out
        /\ PastGate => answer \in {"s", "S"}
        /\ answer \notin {"unread", "s", "S"} =>
              /\ pc \in {"returned", "raised"}
              /\ epoch = 0
              /\ NoModelFileTouched

C2_Witness ==
    /\ backend = "bert" /\ Loaded /\ Len_df = 99 /\ answer = "S"
    /\ "low_data" \in out
    /\ files["bert_model/model"] = "new"

C4_LabelProvenance ==
    \A i \in 1..Len(csv_rows) :
        LET v == Flatten(history)[i]
        IN csv_rows[i].is_real_threat =
              IF v.feedback # "none" THEN (IF v.feedback = "true" THEN 1 ELSE 0)
              ELSE IF v.pred # "absent" THEN (IF v.pred = "true" THEN 1 ELSE 0)
              ELSE 1

\* C5: the vectorizer is fitted on rows of the training partition only; no
\* row of the holdout is an input of the fit.
C5_NoHoldoutLeakage ==
    /\ fit_docs \cap test_idx = {}
    /\ train_idx \cup test_idx # {} => fit_docs \subseteq train_idx

\* C6: severity_numeric is 4, 3, 2, 1, 0 for CRITICAL, HIGH, MEDIUM, LOW,
\* INFO, and 2 for a severity that is missing or none of these five.
C6_SeverityNumeric ==
    fn = "extract_features" =>
        \A i \in 1..Len(frame.rows) :
            LET sev == frame0.rows[i].severity
                v == frame.rows[i].severity_numeric
            IN /\ v \in 0..4
               /\ sev = "CRITICAL" => v = 4
               /\ sev = "HIGH" => v = 3
               /\ sev = "MEDIUM" => v = 2
               /\ sev = "LOW" => v = 1
               /\ sev = "INFO" => v = 0
               /\ sev \notin {"CRITICAL", "HIGH", "MEDIUM", "LOW", "INFO"} => v = 2

C6_Witness ==
    /\ fn = "extract_features" /\ Len(frame.rows) = 2
    /\ frame0.rows[1].severity = "high" /\ frame.rows[1].severity_numeric = 2
    /\ frame0.rows[2].severity = "CRITICAL" /\ frame.rows[2].severity_numeric = 4

\* C7: a run that fails before its final save has created or modified no
\* file under models/.
C7_FailedRunLeavesNoFiles ==
    /\ pc = "raised"
    /\ files["bert_model/model"] \in {"none", "old"}
    /\ files["naive_bayes.pkl"] \in {"none", "old"}
    => NoModelFileTouched

\* C8: a run that loaded a dataset with a class of fewer than 10 members
\* has reported the class-imbalance warning when it ends, and the warning
\* asks for no confirmation when the dataset is not below the threshold.
\* Stated for the runs the claim is surest of: a dataset that is not empty
\* and a run the operator did not stop at the low-data prompt.
C8_ClassImbalanceWarning ==
    /\ Loaded /\ Len_df > 0
    /\ real_threats < 10 \/ false_positives < 10
    /\ answer \in {"unread", "s", "S"}
    =>  /\ pc \in {"returned", "raised"} => "imbalance" \in out
        /\ Len_df >= (IF backend = "nb" THEN 50 ELSE 100) => answer = "unread"

\* the best validation accuracy of the epochs before epoch e
BestBefore(e) ==
    CHOOSE m \in {metrics[j] : j \in 1..(e - 1)} :
        \A j \in 1..(e - 1) : metrics[j] <= m

\* validation accuracy failed to improve at epoch e
NoImprove(e) == e >= 2 /\ e <= Len(metrics) /\ metrics[e] <= BestBefore(e)

\* C9: at most 3 epochs, one validation per epoch; the stop is requested
\* exactly when accuracy failed to improve for 2 consecutive epochs and no
\* epoch runs after that; the model saved is a checkpoint of the best
\* validation accuracy seen.
C9_EarlyStopping ==
    /\ epoch <= 3 /\ Len(metrics) = epoch
    /\ pc = "train" => (should_stop <=> (NoImprove(epoch) /\ NoImprove(epoch - 1)))
    /\ \A e \in 1..Len(metrics) :
          NoImprove(e) /\ NoImprove(e - 1) => Len(metrics) = e
    /\ pc \in {"evaluate", "save_model", "save_tokenizer", "examples"}
         \/ saved_weights # -1 =>
             epoch = 3 \/ (NoImprove(epoch) /\ NoImprove(epoch - 1))
    /\ saved_weights # -1 =>
          /\ saved_weights \in 1..epoch
          /\ \A e \in 1..epoch : metrics[e] <= metrics[saved_weights]

C9_Witness ==
    /\ files["bert_model/model"] = "new" /\ pc = "returned"
    /\ epoch = 3 /\ NoImprove(2) /\ NoImprove(3)
    /\ saved_weights = 1 /\ metrics[3] < metrics[1]

\* C10: a Feature Builder call leaves the dataset object it was passed as
\* it was, columns and values.
C10_SideEffectFree == fn # "none" => frame = frame0
====
